---- MODULE Spec2Model ----
(***************************************************************************)
(* Tabler-icon IntelliSense extension (extension.ts).                      *)
(*                                                                         *)
(* Strings are sequences of one-character strings, so that includes,       *)
(* endsWith, basename, template strings and the token regex are computed   *)
(* on characters.  Byte buffers are sequences of numbers in 0..255.        *)
(***************************************************************************)
EXTENDS Integers, Sequences, FiniteSets, TLC

(***************************************************************************)
(* Bounds of the model.                                                    *)
(***************************************************************************)

\* Capacity of the preview cache.  The source sets it to 300 (line 14); the
\* model runs the same lruSet with a small capacity so that eviction happens.
SVG_CACHE_MAX == 2

(***************************************************************************)
(* String helpers (JavaScript String / Node path semantics).               *)
(***************************************************************************)

\* The value `undefined`; no string equals it (its element is no character).
Undefined == <<"<undefined>">>

\* JavaScript truthiness of a value that is a string or undefined.
Truthy(v) == v # Undefined /\ v # <<>>

\* String.prototype.endsWith
EndsWith(s, suf) ==
    /\ Len(s) >= Len(suf)
    /\ SubSeq(s, Len(s) - Len(suf) + 1, Len(s)) = suf

\* s.startsWith(pre, at) with a 0-based offset `at`
StartsWithAt(s, pre, at) ==
    /\ at + Len(pre) <= Len(s)
    /\ SubSeq(s, at + 1, at + Len(pre)) = pre

\* String.prototype.includes
Includes(s, sub) == \E at \in 0..Len(s) : StartsWithAt(s, sub, at)

\* path.basename(file, ext) for a file name without directory part
Basename(file, ext) ==
    IF Len(ext) > 0 /\ Len(ext) <= Len(file)
    THEN IF ext = file THEN <<>>
         ELSE IF EndsWith(file, ext)
              THEN SubSeq(file, 1, Len(file) - Len(ext))
              ELSE file
    ELSE file

DotSvg == <<".", "s", "v", "g">>

\* The template `${iconName}.svg`
SvgFileName(iconName) == iconName \o DotSvg

(***************************************************************************)
(* Buffer.from(buf).toString("base64")                                     *)
(***************************************************************************)

B64Alphabet ==
    << "A","B","C","D","E","F","G","H","I","J","K","L","M","N","O","P",
       "Q","R","S","T","U","V","W","X","Y","Z","a","b","c","d","e","f",
       "g","h","i","j","k","l","m","n","o","p","q","r","s","t","u","v",
       "w","x","y","z","0","1","2","3","4","5","6","7","8","9","+","/" >>

B64Char(n) == B64Alphabet[n + 1]

RECURSIVE Base64(_)
Base64(bytes) ==
    IF Len(bytes) = 0 THEN <<>>
    ELSE IF Len(bytes) = 1 THEN
        << B64Char(bytes[1] \div 4), B64Char((bytes[1] % 4) * 16), "=", "=" >>
    ELSE IF Len(bytes) = 2 THEN
        << B64Char(bytes[1] \div 4),
           B64Char((bytes[1] % 4) * 16 + bytes[2] \div 16),
           B64Char((bytes[2] % 16) * 4), "=" >>
    ELSE
        << B64Char(bytes[1] \div 4),
           B64Char((bytes[1] % 4) * 16 + bytes[2] \div 16),
           B64Char((bytes[2] % 16) * 4 + bytes[3] \div 64),
           B64Char(bytes[3] % 64) >>
        \o Base64(SubSeq(bytes, 4, Len(bytes)))

\* The template `data:image/svg+xml;base64,${b64}`: the fixed prefix is kept
\* as one leading element, the base64 text follows character by character.
DataUrl(svgBuf) == <<"data:image/svg+xml;base64,">> \o Base64(svgBuf)

(***************************************************************************)
(* JavaScript Map<string, string> in insertion order: a sequence of        *)
(* [key, val] entries with pairwise different keys.                        *)
(***************************************************************************)

MapKeys(m) == [i \in 1..Len(m) |-> m[i].key]

MapKeySet(m) == {m[i].key : i \in 1..Len(m)}

MapHas(m, k) == k \in MapKeySet(m)

MapGet(m, k) ==
    IF MapHas(m, k)
    THEN (CHOOSE e \in {m[i] : i \in 1..Len(m)} : e.key = k).val
    ELSE Undefined

MapDelete(m, k) == SelectSeq(m, LAMBDA e : e.key # k)

\* Map.prototype.set: an existing key keeps its place, a new key goes last.
MapSet(m, k, v) ==
    IF MapHas(m, k)
    THEN [i \in 1..Len(m) |-> IF m[i].key = k THEN [key |-> k, val |-> v] ELSE m[i]]
    ELSE Append(m, [key |-> k, val |-> v])

\* cache.keys().next().value
MapFirstKey(m) == IF Len(m) = 0 THEN Undefined ELSE m[1].key

(***************************************************************************)
(* The LRU preview cache.                                                  *)
(***************************************************************************)

\* Mutant of lruGet: the value is returned without refreshing its recency.
LruGetNoRefresh(cache, key) == [cache |-> cache, value |-> MapGet(cache, key)]

\* lruGet: the value stored for key, moved to the end (most recent).
LruGet(cache, key) ==
    LET v == MapGet(cache, key)
    IN  IF v = Undefined
        THEN [cache |-> cache, value |-> Undefined]
        ELSE [cache |-> MapSet(MapDelete(cache, key), key, v), value |-> v]

\* Mutant of lruSet: the size test is off by one (>= instead of >, counted
\* before the insertion).
LruSetOffByOne(cache, key, val) ==
    LET c1 == IF MapHas(cache, key) THEN MapDelete(cache, key) ELSE cache
        c2 == MapSet(c1, key, val)
    IN  IF Len(c2) > SVG_CACHE_MAX + 1
        THEN MapDelete(c2, MapFirstKey(c2))
        ELSE c2

\* lruSet: key goes last; past the capacity the first key is deleted, when
\* that key is truthy.
LruSet(cache, key, val) ==
    LET c1 == IF MapHas(cache, key) THEN MapDelete(cache, key) ELSE cache
        c2 == MapSet(c1, key, val)
    IN  IF Len(c2) > SVG_CACHE_MAX
        THEN LET oldestKey == MapFirstKey(c2)
             IN  IF Truthy(oldestKey) THEN MapDelete(c2, oldestKey) ELSE c2
        ELSE c2

(***************************************************************************)
(* The media/icons directory of the extension, as the file system holds    *)
(* it: for each file name whether the file exists and its bytes, and       *)
(* whether the directory itself can be read.                               *)
(***************************************************************************)

IconX == <<"x">>
IconA == <<"a">>
IconB == <<"b">>
IconSearch == <<"s", "e", "a", "r", "c", "h">>

NotesTxt == <<"n", ".", "t", "x", "t">>

\* The file names the directory may hold, in the order readdirSync lists them.
DirOrder ==
    << DotSvg, SvgFileName(IconA), SvgFileName(IconB), NotesTxt,
       SvgFileName(IconSearch), SvgFileName(IconX) >>

FileNames == {DirOrder[i] : i \in 1..Len(DirOrder)}

NoFile == [exists |-> FALSE, data |-> <<>>]

File(bytes) == [exists |-> TRUE, data |-> bytes]

\* "<a>" and "<b/>"
SvgBytes1 == <<60, 97, 62>>
SvgBytes2 == <<60, 98, 47, 62>>

\* The contents a file may have when it exists.
Contents(f) == IF f = SvgFileName(IconX) THEN {SvgBytes1, SvgBytes2} ELSE {SvgBytes1}

\* fs.readFileSync(path): throws when the directory or the file cannot be read.
ReadFileSync(dir, dirOk, f) ==
    IF dirOk /\ f \in DOMAIN dir /\ dir[f].exists
    THEN [threw |-> FALSE, data |-> dir[f].data]
    ELSE [threw |-> TRUE, data |-> <<>>]

\* fs.readdirSync(path): throws when the directory cannot be read.
ReaddirSync(dir, dirOk) ==
    IF dirOk
    THEN [threw |-> FALSE, files |-> SelectSeq(DirOrder, LAMBDA f : dir[f].exists)]
    ELSE [threw |-> TRUE, files |-> <<>>]

\* Mutant of getSvgDataUrl: a failed read is remembered in the cache.
GetSvgDataUrlNegativeCaching(cache, dir, dirOk, iconName) ==
    LET g == LruGet(cache, iconName)
    IN  IF Truthy(g.value)
        THEN [cache |-> g.cache, threw |-> FALSE, value |-> g.value, read |-> FALSE]
        ELSE LET r == ReadFileSync(dir, dirOk, SvgFileName(iconName))
             IN  IF r.threw
                 THEN [cache |-> LruSet(g.cache, iconName, <<>>), threw |-> TRUE,
                       value |-> Undefined, read |-> TRUE]
                 ELSE [cache |-> LruSet(g.cache, iconName, DataUrl(r.data)),
                       threw |-> FALSE, value |-> DataUrl(r.data), read |-> TRUE]

\* Mutant of getSvgDataUrl: the file is read again on every call.
GetSvgDataUrlAlwaysReads(cache, dir, dirOk, iconName) ==
    LET r == ReadFileSync(dir, dirOk, SvgFileName(iconName))
    IN  IF r.threw
        THEN [cache |-> cache, threw |-> TRUE, value |-> Undefined, read |-> TRUE]
        ELSE [cache |-> LruSet(cache, iconName, DataUrl(r.data)),
              threw |-> FALSE, value |-> DataUrl(r.data), read |-> TRUE]

(***************************************************************************)
(* getSvgDataUrl(iconName): the returned record holds the cache after the  *)
(* call, whether the call threw, the value returned, and whether storage   *)
(* was read.                                                               *)
(***************************************************************************)

GetSvgDataUrl(cache, dir, dirOk, iconName) ==
    LET g == LruGet(cache, iconName)
    IN  IF Truthy(g.value)
        THEN [cache |-> g.cache, threw |-> FALSE, value |-> g.value, read |-> FALSE]
        ELSE LET r == ReadFileSync(dir, dirOk, SvgFileName(iconName))
             IN  IF r.threw
                 THEN [cache |-> g.cache, threw |-> TRUE, value |-> Undefined,
                       read |-> TRUE]
                 ELSE [cache |-> LruSet(g.cache, iconName, DataUrl(r.data)),
                       threw |-> FALSE, value |-> DataUrl(r.data), read |-> TRUE]

(***************************************************************************)
(* loadIconFiles(): the memoized catalog.  iconFilesCache is null          *)
(* (loaded = FALSE) or an array of {name, uri} (an empty array is truthy). *)
(***************************************************************************)

NullCatalog == [loaded |-> FALSE, files |-> <<>>]

\* Mutant of loadIconFiles: the memoized list is ignored, the directory is
\* read on every call.
LoadIconFilesNoMemo(catalog, dir, dirOk) ==
    LET r == ReaddirSync(dir, dirOk)
    IN  IF r.threw
        THEN [catalog |-> catalog, threw |-> TRUE, files |-> <<>>, read |-> TRUE]
        ELSE LET svgs == SelectSeq(r.files, LAMBDA f : EndsWith(f, DotSvg))
                 files == [i \in 1..Len(svgs) |->
                              [name |-> Basename(svgs[i], DotSvg), uri |-> svgs[i]]]
             IN  [catalog |-> [loaded |-> TRUE, files |-> files],
                  threw |-> FALSE, files |-> files, read |-> TRUE]

LoadIconFiles(catalog, dir, dirOk) ==
    IF catalog.loaded
    THEN [catalog |-> catalog, threw |-> FALSE, files |-> catalog.files, read |-> FALSE]
    ELSE LET r == ReaddirSync(dir, dirOk)
         IN  IF r.threw
             THEN [catalog |-> catalog, threw |-> TRUE, files |-> <<>>, read |-> TRUE]
             ELSE LET svgs == SelectSeq(r.files, LAMBDA f : EndsWith(f, DotSvg))
                      files == [i \in 1..Len(svgs) |->
                                   [name |-> Basename(svgs[i], DotSvg), uri |-> svgs[i]]]
                  IN  [catalog |-> [loaded |-> TRUE, files |-> files],
                       threw |-> FALSE, files |-> files, read |-> TRUE]

(***************************************************************************)
(* The token scanner of updateDecorations: /ti ti-([a-z0-9-]+)/g driven by *)
(* regex.exec in a while loop, with the regex object's lastIndex carried   *)
(* from one exec call to the next and from one line to the next.           *)
(***************************************************************************)

LowerCase ==
    { "a","b","c","d","e","f","g","h","i","j","k","l","m",
      "n","o","p","q","r","s","t","u","v","w","x","y","z" }

UpperCase ==
    { "A","B","C","D","E","F","G","H","I","J","K","L","M",
      "N","O","P","Q","R","S","T","U","V","W","X","Y","Z" }

Digits == { "0","1","2","3","4","5","6","7","8","9" }

\* The class [a-z0-9-]
IdentChar(c) == c \in LowerCase \cup Digits \cup {"-"}

\* The class [-\w]
DashWordChar(c) == c \in LowerCase \cup UpperCase \cup Digits \cup {"_", "-"}

\* The literal "ti ti-"
TokenPrefix == <<"t", "i", " ", "t", "i", "-">>

\* Mutant of the identifier group: one character instead of the whole run
\* ([a-z0-9-] without the +).
IdentEndOneChar(text, at) ==
    IF at < Len(text) /\ IdentChar(text[at + 1]) THEN at + 1 ELSE at

\* The 0-based offset where the run of IdentChar starting at `at` ends.
RECURSIVE IdentEnd(_, _)
IdentEnd(text, at) ==
    IF at < Len(text) /\ IdentChar(text[at + 1])
    THEN IdentEnd(text, at + 1)
    ELSE at

\* Whether the regex matches at the 0-based offset i.
TokenAt(text, i) ==
    /\ StartsWithAt(text, TokenPrefix, i)
    /\ i + Len(TokenPrefix) < Len(text)
    /\ IdentChar(text[i + Len(TokenPrefix) + 1])

\* Mutant of regex.exec: lastIndex moves one character past the start of the
\* match instead of to its end.
RegexExecOverlapping(text, lastIndex) ==
    LET starts == {i \in lastIndex..Len(text) : TokenAt(text, i)}
    IN  IF starts = {}
        THEN [found |-> FALSE, index |-> 0, end |-> 0, name |-> <<>>, lastIndex |-> 0]
        ELSE LET i == CHOOSE j \in starts : \A k \in starts : j <= k
                 e == IdentEnd(text, i + Len(TokenPrefix))
             IN  [found |-> TRUE, index |-> i, end |-> e,
                  name |-> SubSeq(text, i + Len(TokenPrefix) + 1, e),
                  lastIndex |-> i + 1]

\* regex.exec(text) with the regex at lastIndex: the leftmost match at or
\* after lastIndex, lastIndex moved to its end; null and lastIndex 0 if none.
RegexExec(text, lastIndex) ==
    LET starts == {i \in lastIndex..Len(text) : TokenAt(text, i)}
    IN  IF starts = {}
        THEN [found |-> FALSE, index |-> 0, end |-> 0, name |-> <<>>, lastIndex |-> 0]
        ELSE LET i == CHOOSE j \in starts : \A k \in starts : j <= k
                 e == IdentEnd(text, i + Len(TokenPrefix))
             IN  [found |-> TRUE, index |-> i, end |-> e,
                  name |-> SubSeq(text, i + Len(TokenPrefix) + 1, e),
                  lastIndex |-> e]

\* rangesByIcon after pushing one more range for iconName.
PushRange(rangesByIcon, iconName, range) ==
    LET m == IF MapHas(rangesByIcon, iconName)
             THEN rangesByIcon
             ELSE MapSet(rangesByIcon, iconName, <<>>)
    IN  [i \in 1..Len(m) |->
            IF m[i].key = iconName
            THEN [key |-> iconName, val |-> Append(m[i].val, range)]
            ELSE m[i]]

\* Mutant of the while loop: when no further match is found the position of
\* the regex stays where the last match ended instead of going back to 0.
RECURSIVE ScanLineKeepsPosition(_, _, _, _)
ScanLineKeepsPosition(text, line, lastIndex, rangesByIcon) ==
    LET match == RegexExec(text, lastIndex)
    IN  IF ~match.found
        THEN [rangesByIcon |-> rangesByIcon, lastIndex |-> lastIndex]
        ELSE ScanLineKeepsPosition(text, line, match.lastIndex,
                 PushRange(rangesByIcon, match.name,
                           [line |-> line, start |-> match.index,
                            end |-> match.index + (match.end - match.index)]))

\* The while loop over one line (0-based line number).
RECURSIVE ScanLine(_, _, _, _)
ScanLine(text, line, lastIndex, rangesByIcon) ==
    LET match == RegexExec(text, lastIndex)
    IN  IF ~match.found
        THEN [rangesByIcon |-> rangesByIcon, lastIndex |-> match.lastIndex]
        ELSE ScanLine(text, line, match.lastIndex,
                      PushRange(rangesByIcon, match.name,
                                [line |-> line, start |-> match.index,
                                 end |-> match.index + (match.end - match.index)]))

\* The for loop over the lines of the document, from line `line` on.
RECURSIVE ScanLines(_, _, _, _)
ScanLines(lines, line, lastIndex, rangesByIcon) ==
    IF line >= Len(lines)
    THEN rangesByIcon
    ELSE LET r == ScanLine(lines[line + 1], line, lastIndex, rangesByIcon)
         IN  ScanLines(lines, line + 1, r.lastIndex, r.rangesByIcon)

\* regex.lastIndex at the end of the while loop of each line, from line
\* `line` on, the regex being at lastIndex when that line's loop begins.
RECURSIVE LastIndexAfterLines(_, _, _)
LastIndexAfterLines(lines, line, lastIndex) ==
    IF line >= Len(lines)
    THEN <<>>
    ELSE LET r == ScanLine(lines[line + 1], line, lastIndex, <<>>)
         IN  <<r.lastIndex>> \o LastIndexAfterLines(lines, line + 1, r.lastIndex)

\* rangesByIcon of a whole document; the regex literal is fresh (lastIndex 0).
ScanDocument(lines) == ScanLines(lines, 0, 0, <<>>)

(***************************************************************************)
(* document.getWordRangeAtPosition(position, /ti[-\w]*/): the host scans   *)
(* the line for the matches of the word pattern from the left and returns  *)
(* the first one that encloses the position.                               *)
(***************************************************************************)

RECURSIVE DashWordEnd(_, _)
DashWordEnd(text, at) ==
    IF at < Len(text) /\ DashWordChar(text[at + 1])
    THEN DashWordEnd(text, at + 1)
    ELSE at

RECURSIVE WordRangeFrom(_, _, _)
WordRangeFrom(text, from, character) ==
    LET starts == {i \in from..Len(text) : StartsWithAt(text, <<"t", "i">>, i)}
    IN  IF starts = {}
        THEN [found |-> FALSE, start |-> 0, end |-> 0]
        ELSE LET i == CHOOSE j \in starts : \A k \in starts : j <= k
                 e == DashWordEnd(text, i + 2)
             IN  IF i <= character /\ character <= e
                 THEN [found |-> TRUE, start |-> i, end |-> e]
                 ELSE WordRangeFrom(text, e, character)

GetWordRangeAtPosition(text, character) == WordRangeFrom(text, 0, character)

(***************************************************************************)
(* Host objects: documents, editors, decoration types.                     *)
(***************************************************************************)

NoEditor == "none"

Editors == {"e1", "e2", "e3"}

Docs == {"d1", "d2"}

\* editor.document
EditorDoc(e) == IF e = "e2" THEN "d2" ELSE "d1"

\* document.languageId
LanguageId(d) == IF d = "d1" THEN "html" ELSE "plaintext"

\* The allow-list of updateDecorations.
Allowed == {"html", "svelte", "javascriptreact", "typescriptreact"}

IconA1 == <<"a", "-", "1">>

Token(name) == TokenPrefix \o name

\* The texts a document may hold (each a sequence of lines).
DocTexts ==
    { << <<>> >>,
      << Token(IconA) >>,
      << Token(IconB) \o <<" ">> \o Token(IconA) >>,
      << <<"x">> \o Token(IconA1) \o <<" ">> \o <<"t", "i", " ">> \o Token(IconB),
         <<"<", "i", ">">>,
         Token(IconA) >> }

\* The texts document d is changed to: the unsupported-language document
\* takes the first two only.
TextsOf(d) ==
    IF LanguageId(d) \in Allowed
    THEN DocTexts
    ELSE {t \in DocTexts : Len(t) = 1 /\ Len(t[1]) <= Len(Token(IconA))}

\* The identifiers for which the host may refuse to create a decoration type.
Refusable == {IconB}

\* decorationCache.get(name) of a name the map holds
DecoOf(decorationCache, name) ==
    (CHOOSE e \in {decorationCache[i] : i \in 1..Len(decorationCache)} : e.key = name).val

\* editor.setDecorations(deco, ranges): the ranges replace those shown for
\* deco on that editor.
SetDecorations(rendered, editor, deco, ranges) ==
    [rendered EXCEPT ![editor][deco] = ranges]

\* Mutant of getDecorationForIcon: the new handle is not put in the map.
GetDecorationForIconNoCache(st, refuses, name) ==
    IF name \in refuses
    THEN [st |-> st, threw |-> TRUE, deco |-> 0]
    ELSE LET deco == Len(st.types) + 1
         IN  [st |-> [decorationCache |-> st.decorationCache,
                      types |-> Append(st.types,
                                       [iconPath |-> SvgFileName(name),
                                        name |-> name, disposed |-> 0]),
                      rendered |-> [e \in Editors |-> Append(st.rendered[e], <<>>)]],
              threw |-> FALSE, deco |-> deco]

\* getDecorationForIcon(name) on the state st = [decorationCache, types,
\* rendered]; types are the decoration types the host has created, a handle
\* is its index there.  The host's createTextEditorDecorationType throws for
\* the names in refuses.
GetDecorationForIcon(st, refuses, name) ==
    IF MapHas(st.decorationCache, name)
    THEN [st |-> st, threw |-> FALSE, deco |-> DecoOf(st.decorationCache, name)]
    ELSE IF name \in refuses
         THEN [st |-> st, threw |-> TRUE, deco |-> 0]
         ELSE LET deco == Len(st.types) + 1
              IN  [st |-> [decorationCache |-> MapSet(st.decorationCache, name, deco),
                           types |-> Append(st.types,
                                            [iconPath |-> SvgFileName(name),
                                             name |-> name, disposed |-> 0]),
                           rendered |-> [e \in Editors |-> Append(st.rendered[e], <<>>)]],
                   threw |-> FALSE, deco |-> deco]

\* Mutant of the clearing loop: the handles are also dropped from the map.
ClearDecorationsDropsHandles(st, editor) ==
    LET decos == {st.decorationCache[i].val : i \in 1..Len(st.decorationCache)}
    IN  [st EXCEPT !.rendered[editor] =
                       [h \in DOMAIN st.rendered[editor] |->
                           IF h \in decos THEN <<>> ELSE st.rendered[editor][h]],
                   !.decorationCache = <<>>]

\* Mutant of the clearing loop: the ranges are cleared on every editor.
ClearDecorationsEveryEditor(st, editor) ==
    LET decos == {st.decorationCache[i].val : i \in 1..Len(st.decorationCache)}
    IN  [st EXCEPT !.rendered =
            [e \in Editors |->
                [h \in DOMAIN st.rendered[e] |->
                    IF h \in decos THEN <<>> ELSE st.rendered[e][h]]]]

\* for (const deco of decorationCache.values()) editor.setDecorations(deco, [])
ClearDecorations(st, editor) ==
    LET decos == {st.decorationCache[i].val : i \in 1..Len(st.decorationCache)}
    IN  [st EXCEPT !.rendered[editor] =
            [h \in DOMAIN st.rendered[editor] |->
                IF h \in decos THEN <<>> ELSE st.rendered[editor][h]]]

\* for (const [iconName, ranges] of rangesByIcon.entries()) { ... }, from
\* entry i on; an exception of getDecorationForIcon ends the loop.
RECURSIVE ApplyRanges(_, _, _, _, _)
ApplyRanges(st, refuses, editor, rangesByIcon, i) ==
    IF i > Len(rangesByIcon)
    THEN [st |-> st, outcome |-> "applied", failed |-> <<>>]
    ELSE LET g == GetDecorationForIcon(st, refuses, rangesByIcon[i].key)
         IN  IF g.threw
             THEN [st |-> g.st, outcome |-> "threw", failed |-> rangesByIcon[i].key]
             ELSE ApplyRanges(
                      [g.st EXCEPT !.rendered =
                          SetDecorations(g.st.rendered, editor, g.deco,
                                         rangesByIcon[i].val)],
                      refuses, editor, rangesByIcon, i + 1)

\* Mutant of updateDecorations: the previous decorations are not cleared
\* before the scan of a supported document.
UpdateDecorationsNoClear(st, refuses, editor, lines) ==
    IF LanguageId(EditorDoc(editor)) \notin Allowed
    THEN [st |-> ClearDecorations(st, editor), outcome |-> "cleared", failed |-> <<>>]
    ELSE ApplyRanges(st, refuses, editor, ScanDocument(lines), 1)

\* Mutant of updateDecorations: the language of the document is not looked at.
UpdateDecorationsAnyLanguage(st, refuses, editor, lines) ==
    ApplyRanges(ClearDecorations(st, editor), refuses, editor, ScanDocument(lines), 1)

\* updateDecorations(editor), the document of the editor holding `lines`.
UpdateDecorations(st, refuses, editor, lines) ==
    IF LanguageId(EditorDoc(editor)) \notin Allowed
    THEN [st |-> ClearDecorations(st, editor), outcome |-> "cleared", failed |-> <<>>]
    ELSE ApplyRanges(ClearDecorations(st, editor), refuses, editor,
                     ScanDocument(lines), 1)

(***************************************************************************)
(* State.                                                                  *)
(***************************************************************************)

VARIABLES
    phase,               \* "inactive", "active", "failed" (activate threw), "deactivated"
    mediaIcons,          \* the media/icons directory: file name -> file
    iconsDirOk,          \* whether media/icons can be read
    iconFilesCache,      \* the memoized catalog
    svgDataUrlCache,     \* the LRU preview cache
    completionItemMeta,  \* the metadata of the completion items handed out
    ret,                 \* what the last completion handler did and returned
    accessed,            \* history: the identifiers getSvgDataUrl returned a
                         \* payload for, each once, least recent first
    docText,             \* document -> its lines
    activeTextEditor,    \* vscode.window.activeTextEditor
    decorationCache,     \* identifier -> decoration handle
    types,               \* the decoration types the host has created
    rendered,            \* editor -> handle -> the ranges shown for it
    hostRefuses,         \* identifiers whose decoration type the host cannot create
    pass                 \* the last event: its kind, the editor active before it,
                         \* the editor updateDecorations ran on (none if it did
                         \* not run), how that call ended, and whether it ran
                         \* again on the editor and text of the event before

cacheVars == <<iconFilesCache, svgDataUrlCache, completionItemMeta, ret, accessed>>

diskVars == <<mediaIcons, iconsDirOk>>

decoVars == <<decorationCache, types, rendered, pass>>

hostVars == <<docText, activeTextEditor, hostRefuses>>

vars == <<phase, diskVars, cacheVars, decoVars, hostVars>>

\* The files that come and go while the extension runs.
Mutable ==
    {SvgFileName(IconA), SvgFileName(IconB), SvgFileName(IconSearch), SvgFileName(IconX)}

NoGet == [called |-> FALSE, hit |-> FALSE, threw |-> FALSE, value |-> Undefined,
          read |-> FALSE]

NoDoc == [images |-> <<>>, notice |-> Undefined, codeblock |-> Undefined]

IdleRet == [op |-> "none", outcome |-> "none", iconName |-> Undefined,
            lineText |-> <<>>, character |-> 0,
            readDir |-> FALSE, items |-> <<>>, get |-> NoGet, doc |-> NoDoc]

NoPass == [op |-> "none", from |-> NoEditor, editor |-> NoEditor, outcome |-> "none",
           failed |-> <<>>, again |-> FALSE, doc |-> "none"]

Init ==
    /\ phase = "inactive"
    /\ mediaIcons = [f \in FileNames |-> File(SvgBytes1)]
    /\ iconsDirOk = TRUE
    /\ iconFilesCache = NullCatalog
    /\ svgDataUrlCache = <<>>
    /\ completionItemMeta = {}
    /\ ret = IdleRet
    /\ accessed = <<>>
    /\ docText = [d \in Docs |-> << <<>> >>]
    /\ activeTextEditor = NoEditor
    /\ decorationCache = <<>>
    /\ types = <<>>
    /\ rendered = [e \in Editors |-> <<>>]
    /\ hostRefuses = {}
    /\ pass = NoPass

(***************************************************************************)
(* The file system changes under the extension.                            *)
(***************************************************************************)

WriteIconFile(f, bytes) ==
    /\ phase \in {"inactive", "active"}
    /\ mediaIcons[f] # File(bytes)
    /\ mediaIcons' = [mediaIcons EXCEPT ![f] = File(bytes)]
    /\ ret' = IdleRet
    /\ UNCHANGED <<phase, iconsDirOk, iconFilesCache, svgDataUrlCache,
                   completionItemMeta, accessed, decoVars, hostVars>>

RemoveIconFile(f) ==
    /\ phase \in {"inactive", "active"}
    /\ mediaIcons[f].exists
    /\ mediaIcons' = [mediaIcons EXCEPT ![f] = NoFile]
    /\ ret' = IdleRet
    /\ UNCHANGED <<phase, iconsDirOk, iconFilesCache, svgDataUrlCache,
                   completionItemMeta, accessed, decoVars, hostVars>>

SetIconsDirReadable(ok) ==
    /\ phase \in {"inactive", "active"}
    /\ iconsDirOk # ok
    /\ iconsDirOk' = ok
    /\ ret' = IdleRet
    /\ UNCHANGED <<phase, mediaIcons, iconFilesCache, svgDataUrlCache,
                   completionItemMeta, accessed, decoVars, hostVars>>

(***************************************************************************)
(* The completion provider.                                                *)
(***************************************************************************)

\* The lines provideCompletionItems is asked about.
ProvideLines ==
    { <<"t", "i">>,
      <<"t", "i", " ", "a">> }

\* The template `ti-${icon.name}`
ClassName(name) == <<"t", "i", "-">> \o name

\* `<i class="${className}"></i>`, the fixed parts kept as single elements
Snippet(className) == <<"<i class=\"">> \o className \o <<"\"></i>">>

ImageSizes == <<16, 24, 32, 48, 64, 96>>

\* The identifiers in recency order after one more access to name.
Touch(seq, name) == Append(SelectSeq(seq, LAMBDA n : n # name), name)

ProvideCompletionItems(lineText, character) ==
    /\ phase = "active"
    /\ IF ~Includes(lineText, <<"t", "i", " ">>)
          \/ ~GetWordRangeAtPosition(lineText, character).found
       THEN /\ ret' = [IdleRet EXCEPT !.op = "provide", !.outcome = "nothing",
                                      !.lineText = lineText, !.character = character]
            /\ UNCHANGED <<iconFilesCache, completionItemMeta>>
       ELSE LET load == LoadIconFiles(iconFilesCache, mediaIcons, iconsDirOk)
            IN  IF load.threw
                THEN /\ ret' = [IdleRet EXCEPT !.op = "provide", !.outcome = "threw",
                                               !.lineText = lineText,
                                               !.character = character,
                                               !.readDir = load.read]
                     /\ UNCHANGED <<iconFilesCache, completionItemMeta>>
                ELSE /\ iconFilesCache' = load.catalog
                     /\ completionItemMeta' = completionItemMeta \cup
                            { [iconName |-> load.files[i].name,
                               className |-> ClassName(load.files[i].name)] :
                              i \in 1..Len(load.files) }
                     /\ ret' = [IdleRet EXCEPT
                                   !.op = "provide", !.outcome = "items",
                                   !.lineText = lineText,
                                   !.character = character,
                                   !.readDir = load.read,
                                   !.items = [i \in 1..Len(load.files) |->
                                                 ClassName(load.files[i].name)]]
    /\ UNCHANGED <<phase, diskVars, svgDataUrlCache, accessed, decoVars, hostVars>>

\* Mutant of resolveCompletionItem: no try/catch around getSvgDataUrl, the
\* read failure leaves the handler as an exception.
ResolveCompletionItemNoCatch(data) ==
    /\ phase = "active"
    /\ IF ~Truthy(data.iconName) \/ ~Truthy(data.className)
       THEN /\ ret' = [IdleRet EXCEPT !.op = "resolve", !.outcome = "unresolved",
                                      !.iconName = data.iconName]
            /\ UNCHANGED <<svgDataUrlCache, accessed>>
       ELSE LET g == GetSvgDataUrl(svgDataUrlCache, mediaIcons, iconsDirOk,
                                   data.iconName)
            IN  /\ svgDataUrlCache' = g.cache
                /\ accessed' = IF g.threw THEN accessed
                               ELSE Touch(accessed, data.iconName)
                /\ ret' = [IdleRet EXCEPT
                              !.op = "resolve",
                              !.outcome = IF g.threw THEN "threw" ELSE "preview",
                              !.iconName = data.iconName,
                              !.get = [called |-> TRUE, hit |-> ~g.read,
                                       threw |-> g.threw, value |-> g.value,
                                       read |-> g.read],
                              !.doc = IF g.threw THEN NoDoc
                                      ELSE [images |->
                                               [i \in 1..Len(ImageSizes) |->
                                                   [src |-> g.value,
                                                    size |-> ImageSizes[i]]],
                                            notice |-> Undefined,
                                            codeblock |-> Snippet(data.className)]]
    /\ UNCHANGED <<phase, diskVars, iconFilesCache, completionItemMeta, decoVars,
                   hostVars>>

ResolveCompletionItem(data) ==
    /\ phase = "active"
    /\ IF ~Truthy(data.iconName) \/ ~Truthy(data.className)
       THEN /\ ret' = [IdleRet EXCEPT !.op = "resolve", !.outcome = "unresolved",
                                      !.iconName = data.iconName]
            /\ UNCHANGED <<svgDataUrlCache, accessed>>
       ELSE LET g == GetSvgDataUrl(svgDataUrlCache, mediaIcons, iconsDirOk,
                                   data.iconName)
            IN  /\ svgDataUrlCache' = g.cache
                /\ accessed' = IF g.threw THEN accessed
                               ELSE Touch(accessed, data.iconName)
                /\ ret' = [IdleRet EXCEPT
                              !.op = "resolve",
                              !.outcome = IF g.threw THEN "notice" ELSE "preview",
                              !.iconName = data.iconName,
                              !.get = [called |-> TRUE, hit |-> ~g.read,
                                       threw |-> g.threw, value |-> g.value,
                                       read |-> g.read],
                              !.doc = [images |->
                                          IF g.threw THEN <<>>
                                          ELSE [i \in 1..Len(ImageSizes) |->
                                                   [src |-> g.value,
                                                    size |-> ImageSizes[i]]],
                                       notice |-> IF g.threw THEN data.iconName
                                                  ELSE Undefined,
                                       codeblock |-> Snippet(data.className)]]
    /\ UNCHANGED <<phase, diskVars, iconFilesCache, completionItemMeta, decoVars,
                   hostVars>>

(***************************************************************************)
(* Activation, the decoration events, shutdown.                            *)
(***************************************************************************)

DecoState == [decorationCache |-> decorationCache, types |-> types,
              rendered |-> rendered]

\* The decoration variables after a call whose resulting state is r.st.
DecoBecomes(r) ==
    /\ decorationCache' = r.st.decorationCache
    /\ types' = r.st.types
    /\ rendered' = r.st.rendered

\* activate(context): updateDecorations for the editor active at that time,
\* then the provider and the two listeners are registered.  An exception of
\* updateDecorations leaves activate before anything is registered.
Activate ==
    /\ phase = "inactive"
    /\ IF activeTextEditor # NoEditor
       THEN LET r == UpdateDecorations(DecoState, hostRefuses, activeTextEditor,
                                       docText[EditorDoc(activeTextEditor)])
            IN  /\ DecoBecomes(r)
                /\ pass' = [op |-> "activate", from |-> activeTextEditor,
                            editor |-> activeTextEditor,
                            outcome |-> r.outcome, failed |-> r.failed,
                            again |-> FALSE, doc |-> "none"]
                /\ phase' = IF r.outcome = "threw" THEN "failed" ELSE "active"
       ELSE /\ pass' = [NoPass EXCEPT !.op = "activate"]
            /\ phase' = "active"
            /\ UNCHANGED <<decorationCache, types, rendered>>
    /\ ret' = IdleRet
    /\ UNCHANGED <<diskVars, iconFilesCache, svgDataUrlCache, completionItemMeta,
                   accessed, hostVars>>

\* The host makes e (an editor, or none) the active editor; once the extension
\* is active its onDidChangeActiveTextEditor listener runs.
OnDidChangeActiveTextEditor(e) ==
    /\ phase \in {"inactive", "active"}
    /\ e # activeTextEditor
    /\ activeTextEditor' = e
    /\ IF phase = "active" /\ e # NoEditor
       THEN LET r == UpdateDecorations(DecoState, hostRefuses, e, docText[EditorDoc(e)])
            IN  /\ DecoBecomes(r)
                /\ pass' = [op |-> "editor", from |-> activeTextEditor, editor |-> e,
                            outcome |-> r.outcome, failed |-> r.failed,
                            again |-> FALSE, doc |-> "none"]
       ELSE /\ pass' = [NoPass EXCEPT !.op = "editor", !.from = activeTextEditor]
            /\ UNCHANGED <<decorationCache, types, rendered>>
    /\ UNCHANGED <<phase, diskVars, cacheVars, docText, hostRefuses>>

\* Mutant of the onDidChangeTextDocument listener: the test that the changed
\* document is the active editor's is left out.
OnDidChangeTextDocumentAnyDocument(d, lines) ==
    /\ phase \in {"inactive", "active"}
    /\ docText' = [docText EXCEPT ![d] = lines]
    /\ IF /\ phase = "active"
          /\ activeTextEditor # NoEditor
       THEN LET r == UpdateDecorations(DecoState, hostRefuses, activeTextEditor,
                                       docText'[EditorDoc(activeTextEditor)])
            IN  /\ DecoBecomes(r)
                /\ pass' = [op |-> "document", from |-> activeTextEditor,
                            editor |-> activeTextEditor,
                            outcome |-> r.outcome, failed |-> r.failed,
                            again |-> /\ pass.editor = activeTextEditor
                                      /\ lines = docText[d],
                            doc |-> d]
       ELSE /\ pass' = [NoPass EXCEPT !.op = "document", !.from = activeTextEditor,
                                      !.doc = d]
            /\ UNCHANGED <<decorationCache, types, rendered>>
    /\ UNCHANGED <<phase, diskVars, cacheVars, activeTextEditor, hostRefuses>>

\* Document d changes to the lines `lines` (a change event may also carry no
\* content change); once the extension is active its onDidChangeTextDocument
\* listener runs.
OnDidChangeTextDocument(d, lines) ==
    /\ phase \in {"inactive", "active"}
    /\ docText' = [docText EXCEPT ![d] = lines]
    /\ IF /\ phase = "active"
          /\ activeTextEditor # NoEditor
          /\ EditorDoc(activeTextEditor) = d
       THEN LET r == UpdateDecorations(DecoState, hostRefuses, activeTextEditor, lines)
            IN  /\ DecoBecomes(r)
                /\ pass' = [op |-> "document", from |-> activeTextEditor,
                            editor |-> activeTextEditor,
                            outcome |-> r.outcome, failed |-> r.failed,
                            again |-> /\ pass.editor = activeTextEditor
                                      /\ lines = docText[d],
                            doc |-> d]
       ELSE /\ pass' = [NoPass EXCEPT !.op = "document", !.from = activeTextEditor,
                                      !.doc = d]
            /\ UNCHANGED <<decorationCache, types, rendered>>
    /\ UNCHANGED <<phase, diskVars, cacheVars, activeTextEditor, hostRefuses>>

\* The host becomes unable, or able again, to create the decoration type of n.
HostRefusal(n) ==
    /\ phase \in {"inactive", "active"}
    /\ hostRefuses' = IF n \in hostRefuses THEN hostRefuses \ {n}
                      ELSE hostRefuses \cup {n}
    /\ pass' = NoPass
    /\ UNCHANGED <<phase, diskVars, cacheVars, decorationCache, types, rendered,
                   docText, activeTextEditor>>

\* Mutant of deactivate: the handles are disposed, the map is not cleared.
DeactivateKeepsRegistry ==
    /\ phase = "active"
    /\ phase' = "deactivated"
    /\ LET decos == {decorationCache[i].val : i \in 1..Len(decorationCache)}
       IN  /\ types' = [h \in DOMAIN types |->
                           IF h \in decos
                           THEN [types[h] EXCEPT !.disposed = @ + 1]
                           ELSE types[h]]
           /\ rendered' = [e \in Editors |->
                              [h \in DOMAIN rendered[e] |->
                                  IF h \in decos THEN <<>> ELSE rendered[e][h]]]
    /\ decorationCache' = decorationCache
    /\ pass' = [NoPass EXCEPT !.op = "deactivate", !.from = activeTextEditor]
    /\ ret' = IdleRet
    /\ UNCHANGED <<diskVars, iconFilesCache, svgDataUrlCache, completionItemMeta,
                   accessed, hostVars>>

\* deactivate(): every handle of decorationCache is disposed (the host stops
\* showing a disposed type everywhere), then the map is cleared.
Deactivate ==
    /\ phase = "active"
    /\ phase' = "deactivated"
    /\ LET decos == {decorationCache[i].val : i \in 1..Len(decorationCache)}
       IN  /\ types' = [h \in DOMAIN types |->
                           IF h \in decos
                           THEN [types[h] EXCEPT !.disposed = @ + 1]
                           ELSE types[h]]
           /\ rendered' = [e \in Editors |->
                              [h \in DOMAIN rendered[e] |->
                                  IF h \in decos THEN <<>> ELSE rendered[e][h]]]
    /\ decorationCache' = <<>>
    /\ pass' = [NoPass EXCEPT !.op = "deactivate", !.from = activeTextEditor]
    /\ ret' = IdleRet
    /\ UNCHANGED <<diskVars, iconFilesCache, svgDataUrlCache, completionItemMeta,
                   accessed, hostVars>>

(***************************************************************************)
(* Specifications.                                                         *)
(***************************************************************************)

\* The completion side: catalog, preview cache and the icon files.
NextCache ==
    \/ Activate
    \/ \E f \in Mutable : \E bytes \in Contents(f) : WriteIconFile(f, bytes)
    \/ \E f \in Mutable : RemoveIconFile(f)
    \/ \E ok \in BOOLEAN : SetIconsDirReadable(ok)
    \/ \E lineText \in ProvideLines : ProvideCompletionItems(lineText, 0)
    \/ \E data \in completionItemMeta : ResolveCompletionItem(data)

\* The lines of suggestion requests: `ti`, `ti a`, `ti ti-x`.
SuggestLines ==
    { <<"t", "i">>,
      <<"t", "i", " ", "a">>,
      Token(IconX) }

\* The suggestion side: requests at every cursor position of a line, with the
\* directory readable or not and one icon file removable.
NextSuggest ==
    \/ Activate
    \/ RemoveIconFile(SvgFileName(IconX))
    \/ \E ok \in BOOLEAN : SetIconsDirReadable(ok)
    \/ \E lineText \in SuggestLines : \E character \in 0..Len(lineText) :
           ProvideCompletionItems(lineText, character)
    \/ \E data \in completionItemMeta : ResolveCompletionItem(data)

\* The decoration side: editors, documents, decoration handles.
NextDeco ==
    \/ Activate
    \/ \E e \in Editors \cup {NoEditor} : OnDidChangeActiveTextEditor(e)
    \/ \E d \in Docs : \E lines \in TextsOf(d) : OnDidChangeTextDocument(d, lines)
    \/ \E n \in Refusable : HostRefusal(n)
    \/ Deactivate

\* The registry next to the catalog: one html and one plain-text editor, the
\* html document edited, icon files removed before the catalog is loaded by
\* a suggestion request.
NextRegistry ==
    \/ Activate
    \/ \E e \in {"e1", "e2"} : OnDidChangeActiveTextEditor(e)
    \/ \E lines \in DocTexts : OnDidChangeTextDocument("d1", lines)
    \/ \E f \in {SvgFileName(IconX), SvgFileName(IconA), SvgFileName(IconSearch)} :
           RemoveIconFile(f)
    \/ ProvideCompletionItems(<<"t", "i", " ", "a">>, 0)
    \/ Deactivate

(***************************************************************************)
(* The scanner on its own: the extension is activated with an editor open  *)
(* on an html document of one line, and scans that line.                   *)
(***************************************************************************)

\* The identifiers put into the scanned lines.
ScanIds == {<<>>, IconX, IconA, IconSearch}

\* What stands before the token: nothing, `mul`, `ti ti-`, `<i class="`.
ScanPres ==
    { <<>>,
      <<"m", "u", "l">>,
      TokenPrefix,
      <<"<", "i", " ", "c", "l", "a", "s", "s", "=", "\"">> }

\* What stands after it: nothing, `y`, `-b`, ` ti ti-b`, ` text-xl"></i>`.
ScanPosts ==
    { <<>>,
      <<"y">>,
      <<"-", "b">>,
      <<" ">> \o Token(IconB),
      <<" ", "t", "e", "x", "t", "-", "x", "l", "\"", ">", "<", "/", "i", ">">> }

ScanInputs ==
    { pre \o Token(id) \o post : pre \in ScanPres, id \in ScanIds, post \in ScanPosts }

ScanInit ==
    /\ phase = "inactive"
    /\ mediaIcons = [f \in FileNames |-> File(SvgBytes1)]
    /\ iconsDirOk = TRUE
    /\ iconFilesCache = NullCatalog
    /\ svgDataUrlCache = <<>>
    /\ completionItemMeta = {}
    /\ ret = IdleRet
    /\ accessed = <<>>
    /\ \E text \in ScanInputs : docText = [d \in Docs |-> IF d = "d1" THEN <<text>> ELSE << <<>> >>]
    /\ activeTextEditor = "e1"
    /\ decorationCache = <<>>
    /\ types = <<>>
    /\ rendered = [e \in Editors |-> <<>>]
    /\ hostRefuses = {}
    /\ pass = NoPass

\* Activation scans the document; a change event without content change
\* scans it again.
NextScan ==
    \/ Activate
    \/ OnDidChangeTextDocument("d1", docText["d1"])

(***************************************************************************)
(* The scanner on documents of several lines: the extension is activated   *)
(* with an editor open on an html document of two or three lines.          *)
(***************************************************************************)

\* The lines of those documents: the empty line, `ti ti-a`, `xx ti ti-b`,
\* `ti ti-`, `ti ti-a ti ti-b`.
ScanDocLines ==
    { <<>>,
      Token(IconA),
      <<"x", "x", " ">> \o Token(IconB),
      TokenPrefix,
      Token(IconA) \o <<" ">> \o Token(IconB) }

ScanDocs ==
    { <<l1, l2>> : l1 \in ScanDocLines, l2 \in ScanDocLines }
        \cup { <<l1, l2, l3>> : l1 \in ScanDocLines, l2 \in ScanDocLines,
                                l3 \in ScanDocLines }

ScanDocInit ==
    /\ phase = "inactive"
    /\ mediaIcons = [f \in FileNames |-> File(SvgBytes1)]
    /\ iconsDirOk = TRUE
    /\ iconFilesCache = NullCatalog
    /\ svgDataUrlCache = <<>>
    /\ completionItemMeta = {}
    /\ ret = IdleRet
    /\ accessed = <<>>
    /\ \E lines \in ScanDocs : docText = [d \in Docs |-> IF d = "d1" THEN lines ELSE << <<>> >>]
    /\ activeTextEditor = "e1"
    /\ decorationCache = <<>>
    /\ types = <<>>
    /\ rendered = [e \in Editors |-> <<>>]
    /\ hostRefuses = {}
    /\ pass = NoPass

Next == NextCache \/ NextDeco

SpecCache == Init /\ [][NextCache]_vars

SpecDeco == Init /\ [][NextDeco]_vars

SpecRegistry == Init /\ [][NextRegistry]_vars

SpecSuggest == Init /\ [][NextSuggest]_vars

SpecScanDoc == ScanDocInit /\ [][NextScan]_vars

SpecScan == ScanInit /\ [][NextScan]_vars

Spec == Init /\ [][Next]_vars

(***************************************************************************)
(* Properties of the preview cache (SpecCache).                            *)
(***************************************************************************)

\* The step is a getSvgDataUrl call (made by resolveCompletionItem).
GetCalled == ret'.op = "resolve" /\ ret'.get.called

\* The position of name in the access history (0 when it is not there).
AccessRank(name) ==
    IF \E i \in 1..Len(accessed) : accessed[i] = name
    THEN CHOOSE i \in 1..Len(accessed) : accessed[i] = name
    ELSE 0

\* The cached key that was accessed least recently.
LeastRecentlyAccessed ==
    CHOOSE k \in MapKeySet(svgDataUrlCache) :
        \A j \in MapKeySet(svgDataUrlCache) : AccessRank(k) <= AccessRank(j)

\* A step in which getSvgDataUrl inserts into a full cache removes exactly the
\* least recently accessed key.
EvictsLeastRecent ==
    (GetCalled /\ ret'.get.read /\ ~ret'.get.threw
        /\ Len(svgDataUrlCache) >= SVG_CACHE_MAX)
    => /\ MapKeySet(svgDataUrlCache) \ MapKeySet(svgDataUrlCache')
              = {LeastRecentlyAccessed}
       /\ MapKeySet(svgDataUrlCache') \ MapKeySet(svgDataUrlCache) = {ret'.iconName}

\* C1: after every getSvgDataUrl call (hit, miss or failed read) the cache
\* holds at most SVG_CACHE_MAX entries, and an insertion that pushes the size
\* past the bound removes the least recently accessed entry.
C1_CacheBounded ==
    /\ Len(svgDataUrlCache) <= SVG_CACHE_MAX
    /\ [][Len(svgDataUrlCache') <= SVG_CACHE_MAX /\ EvictsLeastRecent]_vars

\* An insertion has just evicted: the call read storage, succeeded, and more
\* identifiers have been accessed than the cache holds.
C1_Witness ==
    /\ ret.op = "resolve" /\ ret.get.read /\ ~ret.get.threw
    /\ Len(accessed) > SVG_CACHE_MAX
    /\ Len(svgDataUrlCache) = SVG_CACHE_MAX

\* The last n elements of a sequence, as a set (all of them when it is shorter).
LastN(seq, n) == {seq[i] : i \in {j \in 1..Len(seq) : j > Len(seq) - n}}

\* C2: the identifiers retained are exactly the SVG_CACHE_MAX most recently
\* accessed distinct identifiers (all of them when fewer were accessed), a
\* hit counting as an access like an insert.
C2_RetainsMostRecent ==
    MapKeySet(svgDataUrlCache) = LastN(accessed, SVG_CACHE_MAX)

\* The scenario x, search, a, x at capacity 2: x returns by a miss, the cache
\* holds a and x, search is gone.
C2_Witness ==
    /\ accessed = <<IconSearch, IconA, IconX>>
    /\ ret.op = "resolve" /\ ret.iconName = IconX /\ ret.get.read
    /\ MapKeys(svgDataUrlCache) = <<IconA, IconX>>

\* The asset of name cannot be read now.
Unreadable(name) == ReadFileSync(mediaIcons, iconsDirOk, SvgFileName(name)).threw

\* The failed call leaves the cache as it was, without an entry for the name.
FailsAndKeepsCache ==
    /\ ret'.get.threw
    /\ svgDataUrlCache' = svgDataUrlCache
    /\ ~MapHas(svgDataUrlCache', ret'.iconName)

\* C3 as stated: a getSvgDataUrl call for an identifier whose asset cannot be
\* read fails and leaves the cache exactly as it was.
C3_AsStated ==
    [][(GetCalled /\ Unreadable(ret'.iconName)) => FailsAndKeepsCache]_vars

\* C3, amended: a getSvgDataUrl call for an identifier that is not in the
\* cache and whose asset cannot be read fails and leaves the cache exactly as
\* it was (keys, payloads, order), with no entry for that identifier.
C3_FailedReadKeepsCache ==
    [][(GetCalled /\ ~MapHas(svgDataUrlCache, ret'.iconName)
            /\ Unreadable(ret'.iconName))
        => FailsAndKeepsCache]_vars

\* A call has just failed while the cache holds entries.
C3_Witness ==
    /\ ret.op = "resolve" /\ ret.get.called /\ ret.get.threw
    /\ Unreadable(ret.iconName)
    /\ Len(svgDataUrlCache) > 0

\* C4: a getSvgDataUrl call for a cached identifier returns the stored payload
\* without reading storage, makes the identifier the most recently used
\* entry, and keeps the key set, every payload and the order of the others.
C4_HitPromotesOnly ==
    [][(GetCalled /\ MapHas(svgDataUrlCache, ret'.iconName))
        => /\ ~ret'.get.threw /\ ~ret'.get.read
           /\ ret'.get.value = MapGet(svgDataUrlCache, ret'.iconName)
           /\ svgDataUrlCache'[Len(svgDataUrlCache')].key = ret'.iconName
           /\ MapKeySet(svgDataUrlCache') = MapKeySet(svgDataUrlCache)
           /\ \A k \in MapKeySet(svgDataUrlCache) :
                  MapGet(svgDataUrlCache', k) = MapGet(svgDataUrlCache, k)
           /\ MapKeys(MapDelete(svgDataUrlCache', ret'.iconName))
                  = MapKeys(MapDelete(svgDataUrlCache, ret'.iconName))]_vars

\* A hit has just been served from a full cache although the file on disk no
\* longer holds what the cache returned.
C4_Witness ==
    /\ ret.op = "resolve" /\ ret.get.called /\ ret.get.hit
    /\ Len(svgDataUrlCache) = SVG_CACHE_MAX
    /\ LET r == ReadFileSync(mediaIcons, iconsDirOk, SvgFileName(ret.iconName))
       IN  r.threw \/ DataUrl(r.data) # ret.get.value

(***************************************************************************)
(* Properties of the decorations (SpecDeco).                               *)
(***************************************************************************)

\* The handles the registry holds.
Handles == {decorationCache[i].val : i \in 1..Len(decorationCache)}

\* updateDecorations ran in the last event.
PassRan == pass.editor # NoEditor

\* C5: between activation and shutdown at most one decoration handle is ever
\* created per icon identifier, and the registry keeps giving out the handle
\* the first call for the identifier created.
C5_OneHandlePerIcon ==
    /\ \A h1, h2 \in DOMAIN types : types[h1].name = types[h2].name => h1 = h2
    /\ phase # "deactivated" =>
           \A h \in DOMAIN types :
               /\ MapHas(decorationCache, types[h].name)
               /\ DecoOf(decorationCache, types[h].name) = h

\* The same handle shows spans on two editors after several passes.
C5_Witness ==
    /\ phase = "active"
    /\ Len(types) >= 2
    /\ \E h \in DOMAIN types : rendered["e1"][h] # <<>> /\ rendered["e3"][h] # <<>>

\* The token matches of a line, stated on positions: a position starts a
\* match when the token pattern matches there and no match that starts
\* further left reaches beyond it.
RECURSIVE StartsMatch(_, _)
StartsMatch(text, i) ==
    /\ TokenAt(text, i)
    /\ \A j \in 0..(i - 1) :
           (TokenAt(text, j) /\ StartsMatch(text, j))
               => IdentEnd(text, j + Len(TokenPrefix)) <= i

\* The ranges where the token of identifier name stands in the lines.
MatchesOf(name, lines) ==
    UNION { { [line |-> l - 1, start |-> i, end |-> i + Len(Token(name))] :
                i \in { i \in 0..Len(lines[l]) :
                          /\ StartsMatch(lines[l], i)
                          /\ StartsWithAt(lines[l], Token(name), i)
                          /\ IdentEnd(lines[l], i + Len(TokenPrefix))
                                 = i + Len(Token(name)) } } :
            l \in 1..Len(lines) }

\* The elements of a sequence, which holds none of them twice.
ShownAs(ranges, set) ==
    /\ {ranges[i] : i \in 1..Len(ranges)} = set
    /\ Len(ranges) = Cardinality(set)

\* C6: after every completed update pass on a supported-language document the
\* ranges shown on the active editor for every handle of the registry are
\* exactly the token matches of its identifier in the current text (none for
\* an identifier that no longer occurs).
C6_RenderedMatchesText ==
    (PassRan /\ pass.outcome = "applied") =>
        /\ pass.editor = activeTextEditor
        /\ \A i \in 1..Len(decorationCache) :
               ShownAs(rendered[pass.editor][decorationCache[i].val],
                       MatchesOf(decorationCache[i].key,
                                 docText[EditorDoc(pass.editor)]))

\* A pass has completed on a text where one known identifier no longer occurs
\* and another one does.
C6_Witness ==
    /\ PassRan /\ pass.outcome = "applied"
    /\ \E i, j \in 1..Len(decorationCache) :
           /\ MatchesOf(decorationCache[i].key, docText[EditorDoc(pass.editor)]) = {}
           /\ MatchesOf(decorationCache[j].key, docText[EditorDoc(pass.editor)]) # {}
           /\ rendered["e3"][decorationCache[i].val] # <<>>

Supported(e) == e # NoEditor /\ LanguageId(EditorDoc(e)) \in Allowed

Unsupported(e) == e # NoEditor /\ LanguageId(EditorDoc(e)) \notin Allowed

C8_SecondPassChangesNothing ==
    [][(PassRan /\ pass'.editor = pass.editor /\ docText' = docText)
        => /\ rendered'[pass.editor] = rendered[pass.editor]
           /\ decorationCache' = decorationCache
           /\ types' = types
           /\ pass'.outcome = pass.outcome]_vars

\* Two passes in a row on one editor and an unchanged text of two
\* identifiers, the second pass started by a change event without content
\* change.
C8_Witness ==
    /\ pass.again /\ pass.outcome = "applied"
    /\ pass.editor = "e1"
    /\ Len(decorationCache) >= 2
    /\ \E h \in Handles : rendered["e1"][h] # <<>>

\* C9 as stated: when creating the decoration of one identifier fails during
\* a pass, the failure does not leave the pass and the spans of every other
\* identifier found in the document are applied.
C9_FailureContained ==
    (PassRan /\ Supported(pass.editor)) =>
        /\ pass.outcome # "threw"
        /\ \A name \in {IconA, IconB, IconA1} \ hostRefuses :
               MatchesOf(name, docText[EditorDoc(pass.editor)]) # {}
               => /\ MapHas(decorationCache, name)
                  /\ ShownAs(rendered[pass.editor][DecoOf(decorationCache, name)],
                             MatchesOf(name, docText[EditorDoc(pass.editor)]))

(***************************************************************************)
(* Properties of the catalog (SpecCache).                                  *)
(***************************************************************************)

\* C10 as stated: a suggestion request never raises an error to the host; with
\* the asset directory unreadable it yields no suggestions.
C10_CatalogFailureCaught ==
    ret.op = "provide" => ret.outcome # "threw"

(***************************************************************************)
(* Properties of the token scanner (SpecScan).                             *)
(***************************************************************************)

\* The identifiers the catalog holds for the directory as it is.
CatalogIds ==
    LET files == LoadIconFiles(NullCatalog, mediaIcons, iconsDirOk).files
    IN  {files[i].name : i \in 1..Len(files)}

\* The spans shown on editor e for line l (0-based), each with its identifier.
SpansOn(e, l) ==
    UNION { { [name |-> types[h].name, start |-> rendered[e][h][k].start,
               end |-> rendered[e][h][k].end] :
                k \in {k \in 1..Len(rendered[e][h]) : rendered[e][h][k].line = l} } :
            h \in DOMAIN types }

\* The number of ranges shown on editor e for the handles 1..h.
RECURSIVE ShownCount(_, _)
ShownCount(e, h) ==
    IF h = 0 THEN 0 ELSE Len(rendered[e][h]) + ShownCount(e, h - 1)

\* The text a span covers.
Covered(text, span) == SubSeq(text, span.start + 1, span.end)

\* The one line scanned by the pass that has just completed on editor e1.
Scanned == pass.editor = "e1" /\ pass.outcome = "applied"

ScannedLine == docText["d1"][1]

\* C11 as stated: for every identifier of the catalog, a scanned line that
\* contains `ti ti-<identifier>` yields exactly one span, covering that text.
C11_AsStated ==
    Scanned =>
        \A id \in CatalogIds :
            Includes(ScannedLine, Token(id)) =>
                /\ ShownCount("e1", Len(types)) = 1
                /\ \A s \in SpansOn("e1", 0) :
                       s.name = id /\ Covered(ScannedLine, s) = Token(id)

\* The token of id stands at offset p, is not followed by an identifier
\* character, and the token pattern matches nowhere else in the line.
StandsAlone(text, id, p) ==
    /\ StartsWithAt(text, Token(id), p)
    /\ p + Len(Token(id)) < Len(text) => ~IdentChar(text[p + Len(Token(id)) + 1])
    /\ \A q \in 0..Len(text) : q # p => ~TokenAt(text, q)

\* C11, amended: for every catalog identifier made of one or more lowercase
\* letters, digits or hyphens, a scanned line in which `ti ti-<identifier>`
\* stands without a further identifier character after it, and which matches
\* the token pattern nowhere else, yields exactly one span, covering exactly
\* `ti ti-<identifier>`.
C11_TokenRoundTrip ==
    Scanned =>
        \A id \in CatalogIds : \A p \in 0..Len(ScannedLine) :
            (/\ Len(id) > 0
             /\ \A k \in 1..Len(id) : IdentChar(id[k])
             /\ StandsAlone(ScannedLine, id, p))
            => /\ ShownCount("e1", Len(types)) = 1
               /\ SpansOn("e1", 0)
                      = {[name |-> id, start |-> p, end |-> p + Len(Token(id))]}
               /\ \A s \in SpansOn("e1", 0) : Covered(ScannedLine, s) = Token(id)

\* The line `<i class="ti ti-search text-xl"></i>` has been scanned and shows
\* its one span.
C11_Witness ==
    /\ Scanned
    /\ ScannedLine = <<"<", "i", " ", "c", "l", "a", "s", "s", "=", "\"">>
                     \o Token(IconSearch)
                     \o <<" ", "t", "e", "x", "t", "-", "x", "l", "\"", ">", "<",
                          "/", "i", ">">>
    /\ SpansOn("e1", 0) = {[name |-> IconSearch, start |-> 10, end |-> 22]}

\* C12: the spans of one line do not overlap pairwise and each has a
\* non-empty identifier; `ti ti-` followed by no identifier character starts
\* no span; the line `ti ti-a ti ti-b` yields exactly the spans of a and b.
C12_SpansDisjointNonEmpty ==
    Scanned =>
        /\ \A s, t \in SpansOn("e1", 0) :
               s # t => (s.end <= t.start \/ t.end <= s.start)
        /\ ShownCount("e1", Len(types)) = Cardinality(SpansOn("e1", 0))
        /\ \A s \in SpansOn("e1", 0) :
               /\ Len(s.name) > 0
               /\ s.end - s.start = Len(Token(s.name))
        /\ \A p \in 0..Len(ScannedLine) :
               (/\ StartsWithAt(ScannedLine, TokenPrefix, p)
                /\ p + Len(TokenPrefix) < Len(ScannedLine)
                       => ~IdentChar(ScannedLine[p + Len(TokenPrefix) + 1]))
               => \A s \in SpansOn("e1", 0) : s.start # p
        /\ ScannedLine = Token(IconA) \o <<" ">> \o Token(IconB)
               => SpansOn("e1", 0) = { [name |-> IconA, start |-> 0, end |-> 7],
                                       [name |-> IconB, start |-> 8, end |-> 15] }

\* The line `ti ti-a ti ti-b` has been scanned and shows two spans.
C12_Witness ==
    /\ Scanned
    /\ ScannedLine = Token(IconA) \o <<" ">> \o Token(IconB)
    /\ Cardinality(SpansOn("e1", 0)) = 2

\* C18 as stated: every span starts at a `ti` that is a whole word, that is,
\* at the start of the line or after a character that belongs to no word.
C18_MarkerIsWholeWord ==
    Scanned =>
        \A s \in SpansOn("e1", 0) :
            s.start = 0 \/ ~DashWordChar(ScannedLine[s.start])

(***************************************************************************)
(* Properties of the suggestion provider (SpecSuggest).                    *)
(***************************************************************************)

\* The cursor lies within a word of the line: a `ti` followed by any run of
\* word characters and hyphens, the cursor between its start and its end.
CursorInWord(text, character) ==
    \E s \in 0..character :
        /\ StartsWithAt(text, <<"t", "i">>, s)
        /\ character <= DashWordEnd(text, s + 2)

\* C13 as stated: a suggestion request returns nothing unless the line
\* contains the marker `ti ` and the cursor lies within a word; otherwise it
\* returns exactly one suggestion per catalog entry; in either case no icon
\* asset is read and the image cache is unchanged.
C13_SuggestionsOrNothing ==
    [][ret'.op = "provide" =>
          LET asked == /\ Includes(ret'.lineText, <<"t", "i", " ">>)
                       /\ CursorInWord(ret'.lineText, ret'.character)
          IN  /\ ~asked => ret'.outcome = "nothing" /\ ret'.items = <<>>
              /\ asked =>
                    /\ ret'.outcome = "items"
                    /\ iconFilesCache'.loaded
                    /\ ret'.items = [i \in 1..Len(iconFilesCache'.files) |->
                                        ClassName(iconFilesCache'.files[i].name)]
              /\ ~ret'.get.called
              /\ svgDataUrlCache' = svgDataUrlCache]_vars

\* The resolve request returned the suggestion with the failure notice and
\* no image, the usage snippet attached, the image cache as it was.
NoticeReturned ==
    /\ ret'.outcome = "notice"
    /\ ret'.doc.images = <<>>
    /\ ret'.doc.notice = ret'.iconName
    /\ ret'.doc.codeblock = Snippet(ClassName(ret'.iconName))
    /\ svgDataUrlCache' = svgDataUrlCache

\* C14 as stated: resolving a suggestion whose icon asset cannot be read
\* returns it with a text-only failure notice and the usage snippet, raises
\* nothing and leaves the image cache unchanged.
C14_AsStated ==
    [][(ret'.op = "resolve" /\ Unreadable(ret'.iconName)) => NoticeReturned]_vars

\* C14, amended: resolving a suggestion with a non-empty icon name that is
\* not in the image cache and whose asset cannot be read returns it with a
\* text-only failure notice and the usage snippet, raises nothing and leaves
\* the image cache unchanged.
C14_FailedResolveDegrades ==
    [][(/\ ret'.op = "resolve"
        /\ Len(ret'.iconName) > 0
        /\ ~MapHas(svgDataUrlCache, ret'.iconName)
        /\ Unreadable(ret'.iconName))
       => NoticeReturned]_vars

\* A resolve request has just returned the failure notice while the image
\* cache holds an entry.
C14_Witness ==
    /\ ret.op = "resolve" /\ ret.outcome = "notice"
    /\ ret.doc.images = <<>> /\ ret.doc.codeblock # <<>>
    /\ ~MapHas(svgDataUrlCache, ret.iconName)
    /\ Len(svgDataUrlCache) > 0

(***************************************************************************)
(* Properties of the decoration registry and of the event handlers         *)
(* (SpecDeco, SpecRegistry).                                               *)
(***************************************************************************)

\* C15: once deactivate has run every handle created since activation has
\* been disposed exactly once and the registry is empty; before deactivate
\* runs no handle has been disposed.
C15_DisposedOnceAtShutdown ==
    /\ phase # "deactivated" => \A h \in DOMAIN types : types[h].disposed = 0
    /\ phase = "deactivated" =>
           /\ \A h \in DOMAIN types : types[h].disposed = 1
           /\ decorationCache = <<>>

\* deactivate has run with two handles created.
C15_Witness ==
    /\ phase = "deactivated"
    /\ Len(types) >= 2
    /\ \A h \in DOMAIN types : types[h].disposed = 1
    /\ decorationCache = <<>>

\* Until shutdown the registry keeps every entry it has, with its handle as
\* it was, in the same place.
RegistryGrows ==
    phase' # "deactivated" =>
        /\ Len(decorationCache') >= Len(decorationCache)
        /\ \A i \in 1..Len(decorationCache) :
               /\ decorationCache'[i] = decorationCache[i]
               /\ types'[decorationCache[i].val] = types[decorationCache[i].val]

\* The number of handles is at most the number of catalog entries.
WithinCatalogSize(catalog, registry) ==
    catalog.loaded => Len(registry) <= Len(catalog.files)

\* C16 as stated: between activation and shutdown the registry only grows,
\* no handle is removed or replaced, and the number of handles stays bounded
\* by the catalog size.
C16_AsStated ==
    [][RegistryGrows /\ WithinCatalogSize(iconFilesCache', decorationCache')]_vars

\* C16, amended: between activation and shutdown the registry only grows and
\* no handle is removed or replaced; a handle is added only by an update
\* pass, for an identifier the scanner matched in the document of that pass,
\* whether the catalog holds that identifier or not.
C16_RegistryOnlyGrows ==
    [][/\ RegistryGrows
       /\ \A i \in (Len(decorationCache) + 1)..Len(decorationCache') :
              /\ pass'.editor # NoEditor
              /\ MatchesOf(decorationCache'[i].key,
                           docText'[EditorDoc(pass'.editor)]) # {}]_vars

\* A pass has found no token in a document while the registry holds two
\* handles, more than the loaded catalog has entries.
C16_Witness ==
    /\ phase = "active"
    /\ pass.outcome = "applied" /\ pass.editor = "e1"
    /\ docText["d1"] = << <<>> >>
    /\ Len(decorationCache) >= 2
    /\ iconFilesCache.loaded /\ Len(iconFilesCache.files) < Len(decorationCache)

(***************************************************************************)
(* The catalog (SpecCache).                                                *)
(***************************************************************************)

\* C17: once the catalog has been loaded it never changes, and every later
\* loadIconFiles call (made by a suggestion request) returns that same list
\* without reading the directory, whatever the directory holds by then; so
\* the directory is listed at most once.
C17_CatalogLoadedOnce ==
    [][iconFilesCache.loaded =>
          /\ iconFilesCache' = iconFilesCache
          /\ (ret'.op = "provide" /\ ret'.outcome # "nothing") =>
                 /\ ~ret'.readDir
                 /\ ret'.outcome = "items"
                 /\ ret'.items = [i \in 1..Len(iconFilesCache.files) |->
                                     ClassName(iconFilesCache.files[i].name)]]_vars

\* A suggestion request has returned the loaded list without reading the
\* directory, which by now would give another list or none.
C17_Witness ==
    /\ ret.op = "provide" /\ ret.outcome = "items" /\ ~ret.readDir
    /\ iconFilesCache.loaded
    /\ Len(ret.items) = Len(iconFilesCache.files)
    /\ CatalogIds # {iconFilesCache.files[i].name : i \in 1..Len(iconFilesCache.files)}

(***************************************************************************)
(* What starts an update pass, and what a pass touches (SpecDeco).         *)
(***************************************************************************)

\* The step has run an update pass.
PassStarted == pass'.editor # NoEditor

\* The pass of the step was started by an active-editor change to an
\* existing editor, and ran on that editor.
StartedByEditorChange ==
    /\ pass'.op = "editor"
    /\ activeTextEditor' # activeTextEditor
    /\ activeTextEditor' # NoEditor
    /\ pass'.editor = activeTextEditor'

\* The pass of the step was started by a content change of the active
\* editor's own document, and ran on the active editor.
StartedByOwnDocumentChange ==
    /\ pass'.op = "document"
    /\ activeTextEditor # NoEditor
    /\ pass'.doc = EditorDoc(activeTextEditor)
    /\ pass'.editor = activeTextEditor
    /\ \A d \in Docs \ {pass'.doc} : docText'[d] = docText[d]

\* The pass of the step was run by activate, on the editor active then.
StartedByActivation ==
    /\ pass'.op = "activate"
    /\ phase = "inactive"
    /\ pass'.editor = activeTextEditor

\* The step is a content change of a document other than the active editor's,
\* or an active-editor change to no editor.
OtherDocumentOrNoEditor ==
    \/ /\ pass'.op = "document"
       /\ activeTextEditor = NoEditor \/ EditorDoc(activeTextEditor) # pass'.doc
    \/ /\ pass'.op = "editor"
       /\ activeTextEditor' = NoEditor

\* The step starts no pass and leaves every rendered span-set and the
\* registry as they were.
NoPassNoChange ==
    /\ ~PassStarted
    /\ rendered' = rendered
    /\ decorationCache' = decorationCache
    /\ types' = types

\* The step changes a rendered span-set or the registry.
ShownChanges ==
    \/ rendered' # rendered
    \/ decorationCache' # decorationCache
    \/ types' # types

\* C19 as stated: an update pass starts only on an active-editor change to an
\* existing editor or on a content change of the active editor's own
\* document; a content change of another document or an active-editor change
\* to no editor starts no pass and changes no span-set and no handle.
C19_AsStated ==
    [][/\ PassStarted => StartedByEditorChange \/ StartedByOwnDocumentChange
       /\ OtherDocumentOrNoEditor => NoPassNoChange
       /\ ShownChanges => PassStarted \/ phase' = "deactivated"]_vars

\* C19, amended: an update pass starts only at activation (for the editor
\* active at that time), on an active-editor change to an existing editor, or
\* on a content change of the active editor's own document; a content change
\* of another document or an active-editor change to no editor starts no
\* pass and changes no span-set and no handle.
C19_PassTriggers ==
    [][/\ PassStarted =>
              \/ StartedByActivation
              \/ StartedByEditorChange
              \/ StartedByOwnDocumentChange
       /\ OtherDocumentOrNoEditor => NoPassNoChange
       /\ ShownChanges => PassStarted \/ phase' = "deactivated"]_vars

\* Another document than the active editor's has just changed, to a text with
\* a token, while the active editor shows spans: no pass ran.
C19_Witness ==
    /\ phase = "active"
    /\ pass.op = "document" /\ pass.doc = "d2" /\ pass.editor = NoEditor
    /\ activeTextEditor = "e1"
    /\ docText["d2"] = << Token(IconA) >>
    /\ \E h \in DOMAIN types : rendered["e1"][h] # <<>>

\* C20: an update pass changes span-sets only on the editor it runs on: on
\* every other editor each handle shows what it showed before, and a handle
\* created by the pass shows nothing there; so also when the pass clears the
\* decorations of an unsupported-language document.
C20_OtherEditorsUntouched ==
    [][PassStarted =>
          \A e \in Editors \ {pass'.editor} :
              /\ Len(rendered'[e]) >= Len(rendered[e])
              /\ \A h \in DOMAIN rendered'[e] :
                     rendered'[e][h] = IF h \in DOMAIN rendered[e]
                                       THEN rendered[e][h]
                                       ELSE <<>>]_vars

\* A pass has cleared the decorations of the plain-text editor while the two
\* html editors still show spans.
C20_Witness ==
    /\ pass.editor = "e2" /\ pass.outcome = "cleared"
    /\ \E h \in DOMAIN types : rendered["e1"][h] # <<>>
    /\ \E h \in DOMAIN types : rendered["e3"][h] # <<>>
    /\ \A h \in DOMAIN types : rendered["e2"][h] = <<>>

(***************************************************************************)
(* The scan of a document of several lines (SpecScanDoc).                  *)
(***************************************************************************)

\* The matches of one line taken by itself, scanned from offset 0.
LineMatches(text) ==
    { [name |-> SubSeq(text, i + Len(TokenPrefix) + 1,
                       IdentEnd(text, i + Len(TokenPrefix))),
       start |-> i,
       end |-> IdentEnd(text, i + Len(TokenPrefix))] :
          i \in {i \in 0..Len(text) : StartsMatch(text, i)} }

\* C21: within one update pass the position of the shared regex is back at 0
\* whenever the scan of a line ends, so every line is scanned from offset 0
\* wherever the matches of earlier lines ended: the pass visits every line
\* and the spans of each line are the matches of that line taken by itself,
\* none skipped.
C21_EveryLineFromZero ==
    Scanned =>
        LET lines == docText["d1"]
        IN  /\ LastIndexAfterLines(lines, 0, 0) = [l \in 1..Len(lines) |-> 0]
            /\ \A l \in 1..Len(lines) : SpansOn("e1", l - 1) = LineMatches(lines[l])
            /\ ShownCount("e1", Len(types))
                   = Cardinality(UNION {SpansOn("e1", l - 1) \X {l} : l \in 1..Len(lines)})

\* A document has been scanned whose first line ends in a match at offset 10
\* and whose third line has a token at offset 0, which is shown.
C21_Witness ==
    /\ Scanned
    /\ docText["d1"] = << <<"x", "x", " ">> \o Token(IconB), <<>>, Token(IconA) >>
    /\ SpansOn("e1", 0) = {[name |-> IconB, start |-> 3, end |-> 10]}
    /\ SpansOn("e1", 2) = {[name |-> IconA, start |-> 0, end |-> 7]}

====
